---- MODULE Spec2Model ----
(***************************************************************************)
(* A model of mini-lexer (src/src/main.rs): the Tokenizer iterator, the    *)
(* Peekable lookahead, the recursive-descent Parser and main's REPL loop.  *)
(*                                                                         *)
(* A source line is a sequence of characters.  Every character is a        *)
(* one-letter string, except the non-ASCII whitespace U+00A0, written      *)
(* NBSP, whose UTF-8 encoding is two bytes long, and the newline LF.       *)
(* Tokenizer.index is compared with input.len() (bytes) and is used both   *)
(* as the argument of chars().nth() (characters) and as a slice bound      *)
(* (bytes); the model keeps the three uses apart.                          *)
(***************************************************************************)
EXTENDS Integers, Sequences, FiniteSets, TLC

VARIABLES
    input,      \* Tokenizer.input of the tokenizer under test
    index,      \* Tokenizer.index of the tokenizer under test
    emitted,    \* <<>> before the first call of next, else <<its last return value>>
    tokens,     \* the tokens returned so far by the tokenizer under test
    tpanic,     \* the tokenizer under test has panicked
    stdin,      \* the characters typed on the line main has not read yet
    eof,        \* stdin has ended
    buf,        \* main: the line buffer
    pc,         \* main: "read" (at read_line), "print" (at println), how main
                \* ended ("exit_ok", "exit_err", "panic"), or "off" (main not run)
    result,     \* main: what parser.expression() returned for the line
    parser      \* main: the Parser (tokenizer cursor and lookahead) after expression()

vars == <<input, index, emitted, tokens, tpanic, stdin, eof, buf, pc, result, parser>>

----------------------------------------------------------------------------
(* Bounds of the explored inputs. *)

\* longest line drawn character by character
MaxLen == 4
\* longest line drawn lexeme by lexeme
MaxToks == 4

----------------------------------------------------------------------------
(* Characters *)

NBSP == "nbsp"
LF == "lf"
Digits == {"0", "1", "2", "3", "4", "5", "6", "7", "8", "9"}

\* char::len_utf8
Width(c) == IF c = NBSP THEN 2 ELSE 1

\* char::is_whitespace
IsWhitespace(c) == c \in {" ", LF, NBSP}

\* char::is_ascii_digit
IsAsciiDigit(c) == c \in Digits

DigitVal(c) ==
    CASE c = "0" -> 0 [] c = "1" -> 1 [] c = "2" -> 2 [] c = "3" -> 3 [] c = "4" -> 4
      [] c = "5" -> 5 [] c = "6" -> 6 [] c = "7" -> 7 [] c = "8" -> 8 [] c = "9" -> 9

\* str::len: the length in bytes, one per character and one more for every
\* character two bytes wide
ByteLen(s) == Len(s) + Cardinality({p \in 1..Len(s) : Width(s[p]) = 2})

RECURSIVE BoundaryFrom(_, _, _, _)
\* the index of the character that starts at byte b, looked for from the
\* character of index k, which starts at byte off; Len(s) for the end of
\* the text; -1 when b is inside a character or past the end
BoundaryFrom(s, k, off, b) ==
    IF off = b THEN k
    ELSE IF off > b \/ k >= Len(s) THEN -1
    ELSE BoundaryFrom(s, k + 1, off + Width(s[k + 1]), b)

\* the character index of the byte offset b, or -1
CharIdx(s, b) == BoundaryFrom(s, 0, 0, b)

\* str::is_char_boundary
IsCharBoundary(s, b) == CharIdx(s, b) >= 0

----------------------------------------------------------------------------
(* f32 values.                                                             *)
(*                                                                         *)
(* A value is kept exactly, as the fraction n/d in lowest terms, when it   *)
(* is a binary fraction with a numerator below 2^24: every such number is  *)
(* an f32, and an IEEE-754 operation whose exact result is an f32 returns  *)
(* it (powf is taken to return a representable power exactly).  The three  *)
(* special values are kept by name.  The result of an operation that       *)
(* rounds, or that has an operand that is not kept exactly, is kept as the *)
(* operation applied to its operands (k = "sym"): equal terms are equal    *)
(* f32 values, since f32 arithmetic is deterministic.                      *)

Rat(n, d) == [k |-> "rat", n |-> n, d |-> d, op |-> "", lit |-> <<>>, args |-> <<>>]
Sym(o, a, b) == [k |-> "sym", n |-> 0, d |-> 1, op |-> o, lit |-> <<>>, args |-> <<a, b>>]
LitSym(chars) == [k |-> "sym", n |-> 0, d |-> 1, op |-> "lit", lit |-> chars, args |-> <<>>]
Special(name) == [k |-> name, n |-> 0, d |-> 1, op |-> "", lit |-> <<>>, args |-> <<>>]
Inf == Special("inf")
NegInf == Special("-inf")
NaN == Special("nan")

\* f32 has a 24-bit significand
MantLimit == 2^24
\* products are only formed below this limit
WorkLimit == 2^29

Abs(x) == IF x < 0 THEN 0 - x ELSE x

RECURSIVE Gcd(_, _)
Gcd(a, b) == IF b = 0 THEN a ELSE Gcd(b, a % b)

RECURSIVE IsPow2(_)
IsPow2(d) == d = 1 \/ (d > 1 /\ d % 2 = 0 /\ IsPow2(d \div 2))

\* whether x * y can be formed
Fits(x, y) == x = 0 \/ y = 0 \/ Abs(y) <= WorkLimit \div Abs(x)

\* the fraction n/d (d > 0) as an exact f32, or FALSE when it is not one
IsExact(n, d) ==
    LET g == Gcd(Abs(n), d)
    IN  Abs(n) \div g < MantLimit /\ IsPow2(d \div g) /\ d \div g <= MantLimit

Norm(n, d) == LET g == Gcd(Abs(n), d) IN Rat(n \div g, d \div g)

IsRat(a) == a.k = "rat"

\* f32 + f32
F32Add(a, b) ==
    IF IsRat(a) /\ IsRat(b) /\ Fits(a.n, b.d) /\ Fits(b.n, a.d) /\ Fits(a.d, b.d)
       /\ IsExact(a.n * b.d + b.n * a.d, a.d * b.d)
    THEN Norm(a.n * b.d + b.n * a.d, a.d * b.d)
    ELSE Sym("add", a, b)

\* f32 - f32
F32Sub(a, b) ==
    IF IsRat(a) /\ IsRat(b) /\ Fits(a.n, b.d) /\ Fits(b.n, a.d) /\ Fits(a.d, b.d)
       /\ IsExact(a.n * b.d - b.n * a.d, a.d * b.d)
    THEN Norm(a.n * b.d - b.n * a.d, a.d * b.d)
    ELSE Sym("sub", a, b)

\* f32 * f32 (a zero product of a negative operand is -0.0, kept as a term)
F32Mul(a, b) ==
    IF IsRat(a) /\ IsRat(b) /\ Fits(a.n, b.n) /\ Fits(a.d, b.d)
       /\ IsExact(a.n * b.n, a.d * b.d)
       /\ (a.n * b.n # 0 \/ (a.n >= 0 /\ b.n >= 0))
    THEN Norm(a.n * b.n, a.d * b.d)
    ELSE Sym("mul", a, b)

\* f32 / f32: no zero check, a zero divisor gives inf, -inf or NaN
F32Div(a, b) ==
    IF IsRat(a) /\ IsRat(b)
    THEN IF b.n = 0
         THEN IF a.n > 0 THEN Inf ELSE IF a.n < 0 THEN NegInf ELSE NaN
         ELSE IF a.n # 0 /\ Fits(a.n, b.d) /\ Fits(a.d, b.n)
                 /\ IsExact(a.n * b.d * (IF b.n < 0 THEN -1 ELSE 1), a.d * Abs(b.n))
              THEN Norm(a.n * b.d * (IF b.n < 0 THEN -1 ELSE 1), a.d * Abs(b.n))
              ELSE IF a.n = 0 /\ b.n > 0 THEN Rat(0, 1)
              ELSE Sym("div", a, b)
    ELSE Sym("div", a, b)

RECURSIVE IntPow(_, _)
\* x^e for e >= 0, or -1 when a product cannot be formed (x >= 0)
IntPow(x, e) ==
    IF e = 0 THEN 1
    ELSE LET r == IntPow(x, e - 1)
         IN  IF r < 0 \/ ~Fits(r, x) THEN -1 ELSE r * x

\* f32::powf
F32Pow(a, b) ==
    IF IsRat(a) /\ IsRat(b)
    THEN IF b.n = 0 \/ a = Rat(1, 1) THEN Rat(1, 1)
         ELSE IF b.d = 1 /\ b.n > 0 /\ b.n <= 32
         THEN LET pn == IntPow(Abs(a.n), b.n)
                  pd == IntPow(a.d, b.n)
                  sg == IF a.n < 0 /\ b.n % 2 = 1 THEN -1 ELSE 1
              IN  IF pn >= 0 /\ pd >= 0 /\ IsExact(pn, pd)
                  THEN Norm(sg * pn, pd)
                  ELSE Sym("powf", a, b)
         ELSE Sym("powf", a, b)
    ELSE Sym("powf", a, b)

----------------------------------------------------------------------------
(* str::parse::<f32> on the characters a line can hold *)

RECURSIVE DigitsVal(_, _)
\* the number written by a run of digits, after the digits worth acc
DigitsVal(ds, acc) == IF ds = <<>> THEN acc ELSE DigitsVal(Tail(ds), acc * 10 + DigitVal(Head(ds)))

RECURSIVE Pow10(_)
Pow10(k) == IF k = 0 THEN 1 ELSE 10 * Pow10(k - 1)

\* the positions of '.' in a literal
DotsOf(lit) == {p \in 1..Len(lit) : lit[p] = "."}

\* the literal without its '.'
Undotted(lit) == SelectSeq(lit, LAMBDA c : c # ".")

\* an unsigned decimal: digits and at most one '.', at least one digit
IsDecimal(lit) ==
    /\ \A p \in 1..Len(lit) : IsAsciiDigit(lit[p]) \/ lit[p] = "."
    /\ Cardinality(DotsOf(lit)) <= 1
    /\ Len(Undotted(lit)) >= 1

\* the value of an unsigned decimal with sign sg
DecimalValue(lit, sg) ==
    LET ds == Undotted(lit)
        fr == IF DotsOf(lit) = {} THEN 0 ELSE Len(lit) - (CHOOSE p \in DotsOf(lit) : TRUE)
    IN  IF Len(ds) <= 8 /\ IsExact(DigitsVal(ds, 0), Pow10(fr))
           /\ (sg = 1 \/ DigitsVal(ds, 0) # 0)
        THEN Norm(sg * DigitsVal(ds, 0), Pow10(fr))
        ELSE LitSym(IF sg = 1 THEN lit ELSE <<"-">> \o lit)

NoValue == Special("none")

\* literal.parse::<f32>().ok(): NoValue stands for None.  A sign may lead the
\* decimal; the other forms parse accepts (inf, nan, an exponent) need
\* letters that no line explored here holds.
ParseF32(lit) ==
    IF lit # <<>> /\ Head(lit) \in {"+", "-"}
    THEN IF IsDecimal(Tail(lit))
         THEN DecimalValue(Tail(lit), IF Head(lit) = "-" THEN -1 ELSE 1)
         ELSE NoValue
    ELSE IF IsDecimal(lit) THEN DecimalValue(lit, 1) ELSE NoValue

----------------------------------------------------------------------------
(* Tokenizer *)

NoChar == "none"

\* input.chars().nth(i)
CharsNth(s, i) == IF i < Len(s) THEN s[i + 1] ELSE NoChar

\* Whether &s[a..b] panics: a bound past the end or inside a character
SlicePanics(s, a, b) == ~(a <= b /\ IsCharBoundary(s, a) /\ IsCharBoundary(s, b))

\* &s[a..b] where it does not panic
Slice(s, a, b) == SubSeq(s, CharIdx(s, a) + 1, CharIdx(s, b))

NoNum == Special("nonum")
NoToken == [type |-> "None", num |-> NoNum, op |-> "", start |-> 0, end |-> 0, literal |-> <<>>]
NumberToken(v, a, b, l) ==
    [type |-> "Number", num |-> v, op |-> "", start |-> a, end |-> b, literal |-> l]
OperatorToken(o, a, b, l) ==
    [type |-> "Operator", num |-> NoNum, op |-> o, start |-> a, end |-> b, literal |-> l]

\* what a call of next leaves: the cursor, the item returned, whether it panicked
Returned(i, t) == [index |-> i, tok |-> t, panic |-> FALSE]
Panicked(i) == [index |-> i, tok |-> NoToken, panic |-> TRUE]

RECURSIVE SkipWhitespace(_, _)
\* the loop of lines 68-72: the cursor after it, or a panic of its unwrap
SkipWhitespace(s, i) ==
    IF i < ByteLen(s)
    THEN IF CharsNth(s, i) = NoChar THEN Panicked(i)
         ELSE IF IsWhitespace(CharsNth(s, i)) THEN SkipWhitespace(s, i + 1)
         ELSE Returned(i, NoToken)
    ELSE Returned(i, NoToken)

RECURSIVE ScanNumber(_, _)
\* the loop of lines 83-90
ScanNumber(s, i) ==
    IF i < ByteLen(s)
    THEN IF CharsNth(s, i) = NoChar THEN Panicked(i)
         ELSE IF IsAsciiDigit(CharsNth(s, i)) \/ CharsNth(s, i) = "." THEN ScanNumber(s, i + 1)
         ELSE Returned(i, NoToken)
    ELSE Returned(i, NoToken)

\* Tokenizer::peek
TokenizerPeek(s, i) == CharsNth(s, i + 1)

\* lines 93 and 115-123: the token of a literal that parsed to num, or None
\* (the ? of line 92) when it did not parse
NumberParsed(start, end, literal, num) ==
    IF num = NoValue THEN Returned(end, NoToken)
    ELSE Returned(end, NumberToken(num, start, end, literal))

\* lines 91-92: the literal sliced out of the input, and its parse
NumberScanned(s, start, sc) ==
    IF sc.panic THEN sc
    ELSE IF SlicePanics(s, start, sc.index) THEN Panicked(sc.index)
    ELSE NumberParsed(start, sc.index, Slice(s, start, sc.index),
                      ParseF32(Slice(s, start, sc.index)))

\* lines 81-93: the number branch of next, from the token's start
NumberBranch(s, start) == NumberScanned(s, start, ScanNumber(s, start))

\* lines 96-110: the operator and the cursor before the final index += 1,
\* or "" for a lead character that is no operator
OperatorMatch(s, start, ch) ==
    CASE ch = "+" -> [op |-> "Add", index |-> start]
      [] ch = "-" -> [op |-> "Subtract", index |-> start]
      [] ch = "*" -> IF TokenizerPeek(s, start) = "*"
                     THEN [op |-> "Power", index |-> start + 1]
                     ELSE [op |-> "Multiply", index |-> start]
      [] ch = "/" -> [op |-> "Divide", index |-> start]
      [] OTHER -> [op |-> "", index |-> start]

\* lines 109-123: return None for no operator, else index += 1 and the token
OperatorMatched(s, start, m) ==
    IF m.op = "" THEN Returned(start, NoToken)
    ELSE IF SlicePanics(s, start, m.index + 1) THEN Panicked(m.index + 1)
    ELSE Returned(m.index + 1,
                  OperatorToken(m.op, start, m.index + 1, Slice(s, start, m.index + 1)))

\* lines 94-123: the operator branch of next
OperatorBranch(s, start, ch) == OperatorMatched(s, start, OperatorMatch(s, start, ch))

\* lines 79-113: the branch taken on the character ch at the token's start
LeadChar(s, start, ch) ==
    IF ch = NoChar THEN Panicked(start)
    ELSE IF IsAsciiDigit(ch) \/ ch = "." THEN NumberBranch(s, start)
    ELSE OperatorBranch(s, start, ch)

\* lines 74-79: after the whitespace loop
AfterWhitespace(s, ws) ==
    IF ws.panic THEN ws
    ELSE IF ws.index >= ByteLen(s) THEN Returned(ws.index, NoToken)
    ELSE LeadChar(s, ws.index, CharsNth(s, ws.index))

\* Tokenizer::next on the input s with the cursor at i
TokenizerNext(s, i) == AfterWhitespace(s, SkipWhitespace(s, i))

----------------------------------------------------------------------------
(* Peekable<Tokenizer>: the cursor of the tokenizer and the lookahead.     *)
(* peeked is <<>> when nothing is buffered, else <<item>>, where the item  *)
(* is a token or NoToken (a buffered None).                                *)

NewParser == [index |-> 0, peeked |-> <<>>]

\* what a Peekable call leaves: the parser, the item returned, whether it panicked
Got(p, t, pan) == [p |-> p, tok |-> t, panic |-> pan]

\* the item n of the tokenizer, buffered and returned
Buffered(n) == Got([index |-> n.index, peeked |-> <<n.tok>>], n.tok, n.panic)

\* the item n of the tokenizer, returned
Passed(n) == Got([index |-> n.index, peeked |-> <<>>], n.tok, n.panic)

\* Peekable::peek
PeekablePeek(s, p) ==
    IF p.peeked = <<>> THEN Buffered(TokenizerNext(s, p.index))
    ELSE Got(p, p.peeked[1], FALSE)

\* Peekable::next
PeekableNext(s, p) ==
    IF p.peeked = <<>> THEN Passed(TokenizerNext(s, p.index))
    ELSE Got([index |-> p.index, peeked |-> <<>>], p.peeked[1], FALSE)

----------------------------------------------------------------------------
(* Parser.  A grammar rule R(s, p) is the rule run on the parser p over    *)
(* the line s; where a rule goes on with what a call returned, the rest of *)
(* the rule is a definition of its own taking that value.                  *)

\* Display of OperatorType
OperatorDisplay(o) ==
    CASE o = "Add" -> "+" [] o = "Subtract" -> "-" [] o = "Multiply" -> "*"
      [] o = "Divide" -> "/" [] o = "Power" -> "**"

\* Display of TokenType, for an operator
OperatorTokenDisplay(o) == "Operator(" \o OperatorDisplay(o) \o ")"

Ok(v) == [kind |-> "ok", val |-> v, msg |-> ""]
Err(m) == [kind |-> "err", val |-> NoNum, msg |-> m]
Panic == [kind |-> "panic", val |-> NoNum, msg |-> ""]
NoResult == [kind |-> "none", val |-> NoNum, msg |-> ""]

\* what a grammar rule leaves: the parser and the Result it returned
Ret(p, r) == [p |-> p, r |-> r]

\* accept as it would be if it consumed the token it looks at whether or not
\* the check passes
AcceptPeekedConsuming(s, ops, pk) ==
    IF pk.panic THEN pk
    ELSE IF pk.tok.type = "Operator" /\ pk.tok.op \in ops THEN PeekableNext(s, pk.p)
    ELSE Got(PeekableNext(s, pk.p).p, NoToken, FALSE)

\* lines 146-151: accept after its peek returned pk
AcceptPeeked(s, ops, pk) ==
    IF pk.panic THEN pk
    ELSE IF pk.tok.type = "Operator" /\ pk.tok.op \in ops THEN PeekableNext(s, pk.p)
    ELSE Got(pk.p, NoToken, FALSE)

\* Parser::accept, with the check "an operator of the set ops"
Accept(s, p, ops) == AcceptPeeked(s, ops, PeekablePeek(s, p))

\* lines 155-158: except after its accept returned a
ExceptAccepted(a) ==
    IF a.panic THEN Ret(a.p, Panic)
    ELSE IF a.tok # NoToken THEN Ret(a.p, Ok(a.tok.num))
    ELSE Ret(a.p, Err("unexpected token"))

\* Parser::except
Except(s, p, ops) == ExceptAccepted(Accept(s, p, ops))

\* factor as it would be if it reported every token that is no number as
\* the end of the input
FactorOfOneError(nx) ==
    IF nx.panic THEN Ret(nx.p, Panic)
    ELSE IF nx.tok.type = "Number" THEN Ret(nx.p, Ok(nx.tok.num))
    ELSE Ret(nx.p, Err("unexpected end of input"))

\* lines 164-171: factor after self.tokenizer.next() returned nx
FactorOf(nx) ==
    IF nx.panic THEN Ret(nx.p, Panic)
    ELSE IF nx.tok.type = "Number" THEN Ret(nx.p, Ok(nx.tok.num))
    ELSE IF nx.tok.type = "Operator"
         THEN Ret(nx.p, Err("expected number, got " \o OperatorTokenDisplay(nx.tok.op)))
    ELSE Ret(nx.p, Err("unexpected end of input"))

\* Parser::factor
Factor(s, p) == FactorOf(PeekableNext(s, p))

RECURSIVE ExpoLoop(_, _, _)
RECURSIVE Expo(_, _)

\* lines 179-183: the loop body of expo after its factor returned f
ExpoFold(s, base, op, f) ==
    IF f.r.kind # "ok" THEN f
    ELSE IF op = "Power" THEN ExpoLoop(s, f.p, F32Pow(base, f.r.val))
    ELSE Ret(f.p, Panic)

\* expo as it would be if the operand to the right of ** were a whole expo,
\* which groups a chain of ** from the right
ExpoAcceptedRight(s, base, a) ==
    IF a.panic THEN Ret(a.p, Panic)
    ELSE IF a.tok = NoToken THEN Ret(a.p, Ok(base))
    ELSE ExpoFold(s, base, a.tok.op, Expo(s, a.p))

\* line 178: the loop condition of expo after its accept returned a
ExpoAccepted(s, base, a) ==
    IF a.panic THEN Ret(a.p, Panic)
    ELSE IF a.tok = NoToken THEN Ret(a.p, Ok(base))
    ELSE ExpoFold(s, base, a.tok.op, Factor(s, a.p))

\* lines 178-185: the while loop of Parser::expo, with the running base
ExpoLoop(s, p, base) == ExpoAccepted(s, base, Accept(s, p, {"Power"}))

\* line 177: expo after its first factor returned f
ExpoFirst(s, f) == IF f.r.kind # "ok" THEN f ELSE ExpoLoop(s, f.p, f.r.val)

\* Parser::expo
Expo(s, p) == ExpoFirst(s, Factor(s, p))

RECURSIVE TermLoop(_, _, _)

\* lines 195-200: the loop body of term after its expo returned e
TermFold(s, left, op, e) ==
    IF e.r.kind # "ok" THEN e
    ELSE IF op = "Multiply" THEN TermLoop(s, e.p, F32Mul(left, e.r.val))
    ELSE IF op = "Divide" THEN TermLoop(s, e.p, F32Div(left, e.r.val))
    ELSE Ret(e.p, Panic)

\* term as it would be if the operand to the right of * or / were a factor,
\* as the comment on Parser::term has it, and not an expo
TermAcceptedFactor(s, left, a) ==
    IF a.panic THEN Ret(a.p, Panic)
    ELSE IF a.tok = NoToken THEN Ret(a.p, Ok(left))
    ELSE TermFold(s, left, a.tok.op, Factor(s, a.p))

\* line 194: the loop condition of term after its accept returned a
TermAccepted(s, left, a) ==
    IF a.panic THEN Ret(a.p, Panic)
    ELSE IF a.tok = NoToken THEN Ret(a.p, Ok(left))
    ELSE TermFold(s, left, a.tok.op, Expo(s, a.p))

\* lines 194-202: the while loop of Parser::term, with the running left
TermLoop(s, p, left) == TermAccepted(s, left, Accept(s, p, {"Multiply", "Divide"}))

\* line 193: term after its first expo returned e
TermFirst(s, e) == IF e.r.kind # "ok" THEN e ELSE TermLoop(s, e.p, e.r.val)

\* Parser::term
Term(s, p) == TermFirst(s, Expo(s, p))

RECURSIVE ExpressionLoop(_, _, _)

\* lines 212-217: the loop body of expression after its term returned t
ExpressionFold(s, left, op, t) ==
    IF t.r.kind # "ok" THEN t
    ELSE IF op = "Add" THEN ExpressionLoop(s, t.p, F32Add(left, t.r.val))
    ELSE IF op = "Subtract" THEN ExpressionLoop(s, t.p, F32Sub(left, t.r.val))
    ELSE Ret(t.p, Panic)

\* line 211: the loop condition of expression after its accept returned a
ExpressionAccepted(s, left, a) ==
    IF a.panic THEN Ret(a.p, Panic)
    ELSE IF a.tok = NoToken THEN Ret(a.p, Ok(left))
    ELSE ExpressionFold(s, left, a.tok.op, Term(s, a.p))

\* lines 211-219: the while loop of Parser::expression, with the running left
ExpressionLoop(s, p, left) == ExpressionAccepted(s, left, Accept(s, p, {"Add", "Subtract"}))

\* line 210: expression after its first term returned t
ExpressionFirst(s, t) == IF t.r.kind # "ok" THEN t ELSE ExpressionLoop(s, t.p, t.r.val)

\* Parser::expression
Expression(s, p) == ExpressionFirst(s, Term(s, p))

----------------------------------------------------------------------------
(* The lines explored: every line of up to MaxLen characters of Alphabet,  *)
(* every line of up to MaxToks operands and operators, every chain         *)
(* a op1 b op2 c of the operands 2 and 3 and the five operators, and the   *)
(* lines of the repository's test and of the examples of its               *)
(* documentation.                                                          *)

Alphabet == {"2", ".", " ", NBSP, "+", "-", "*", "x"}

LexChars == {"2", "3", "+", "-", "*", "/"}

TestInput == <<"2", " ", "*", "*", " ", "2", " ", "+", " ", "4", " ", "*", " ", "5">>
Examples ==
    { TestInput,
      <<"2", " ", "+", " ", "3", " ", "*", " ", "4">>,
      <<"2", " ", "*", "*", " ", "3", " ", "*", "*", " ", "2">>,
      <<"1", "0", " ", "/", " ", "2", " ", "/", " ", "5">>,
      <<"3", " ", "+">>,
      <<"+", " ", "3">>,
      <<"2", "+", "3">>,
      <<"2", " ", "+", " ", "3">>,
      <<"2", " ", "3">>,
      <<"1", ".", "2", ".", "3", "+", "4">>,
      <<"q">>,
      <<"q", "u", "i", "t">> }

RECURSIVE ChainFrom(_, _)
\* l is the start of what is left of a chain a op1 b op2 c from its part k
\* on (parts 1, 3, 5: an operand 2 or 3; parts 2, 4: one of + - * / **)
ChainFrom(l, k) ==
    IF l = <<>> THEN TRUE
    ELSE IF k > 5 THEN FALSE
    ELSE IF k % 2 = 1 THEN Head(l) \in {"2", "3"} /\ ChainFrom(Tail(l), k + 1)
    ELSE \/ Head(l) \in {"+", "-", "*", "/"} /\ ChainFrom(Tail(l), k + 1)
         \/ Head(l) = "*" /\ Len(l) >= 2 /\ l[2] = "*" /\ ChainFrom(SubSeq(l, 3, Len(l)), k + 1)

Chars == Alphabet \cup LexChars \cup UNION {{e[p] : p \in 1..Len(e)} : e \in Examples}

RECURSIVE LexCount(_)
\* the least number of lexemes a line of LexChars is made of
LexCount(l) ==
    IF l = <<>> THEN 0
    ELSE IF Len(l) >= 2 /\ l[1] = "*" /\ l[2] = "*" THEN 1 + LexCount(SubSeq(l, 3, Len(l)))
    ELSE 1 + LexCount(Tail(l))

IsRawLine(l) == Len(l) <= MaxLen /\ \A p \in 1..Len(l) : l[p] \in Alphabet
IsTokLine(l) == (\A p \in 1..Len(l) : l[p] \in LexChars) /\ LexCount(l) <= MaxToks
IsExamplePrefix(l) == \E e \in Examples : Len(l) <= Len(e) /\ SubSeq(e, 1, Len(l)) = l
IsChainPrefix(l) == ChainFrom(l, 1)

Explored(l) == IsRawLine(l) \/ IsTokLine(l) \/ IsChainPrefix(l) \/ IsExamplePrefix(l)

----------------------------------------------------------------------------
(* The tokenizer on its own, as tests::test_tokenize drives it: a source   *)
(* text, Tokenizer::tokenize over it, then one call of next after the      *)
(* other.                                                                  *)

InitTok ==
    /\ input = <<>>
    /\ index = 0
    /\ emitted = <<>>
    /\ tokens = <<>>
    /\ tpanic = FALSE
    /\ stdin = <<>>
    /\ eof = FALSE
    /\ buf = <<>>
    /\ pc = "off"
    /\ result = NoResult
    /\ parser = NewParser

\* Tokenizer::tokenize: the source text grows by one character as long as
\* next has not been called on the tokenizer over it
Tokenize ==
    /\ emitted = <<>> /\ ~tpanic
    /\ \E c \in Chars :
          /\ IsRawLine(Append(input, c)) \/ IsExamplePrefix(Append(input, c))
          /\ input' = Append(input, c)
    /\ UNCHANGED <<index, emitted, tokens, tpanic, stdin, eof, buf, pc, result, parser>>

\* the tokenizer under test after a call of next that left n
Called(n) ==
    /\ index' = n.index
    /\ tpanic' = n.panic
    /\ emitted' = IF n.panic THEN emitted ELSE <<n.tok>>
    /\ tokens' = IF n.panic \/ n.tok = NoToken THEN tokens ELSE Append(tokens, n.tok)

\* one call of Tokenizer::next
TokNext ==
    /\ ~tpanic
    /\ Called(TokenizerNext(input, index))
    /\ UNCHANGED <<input, stdin, eof, buf, pc, result, parser>>

NextTok == Tokenize \/ TokNext

SpecTok == InitTok /\ [][NextTok]_vars

----------------------------------------------------------------------------
(* main: the REPL loop *)

Quit == {<<"q", LF>>, <<"q", "u", "i", "t", LF>>}

Init ==
    /\ input = <<>>
    /\ index = 0
    /\ emitted = <<>>
    /\ tokens = <<>>
    /\ tpanic = FALSE
    /\ stdin = <<>>
    /\ eof = FALSE
    /\ buf = <<>>
    /\ pc = "read"
    /\ result = NoResult
    /\ parser = NewParser

\* the user types one more character of the line main waits for
Type ==
    /\ pc = "read" /\ ~eof
    /\ \E c \in Chars :
          /\ Explored(Append(stdin, c))
          /\ stdin' = Append(stdin, c)
    /\ UNCHANGED <<input, index, emitted, tokens, tpanic, eof, buf, pc, result, parser>>

\* lines 238-239: the ? on what expression returned
Evaluated(e) ==
    /\ pc' = CASE e.r.kind = "ok" -> "print"
               [] e.r.kind = "err" -> "exit_err"
               [] OTHER -> "panic"
    /\ result' = e.r
    /\ parser' = e.p

\* lines 231-238: the exit check, then a new Tokenizer and Parser over the
\* buffer b and parser.expression()?
Evaluate(b) ==
    /\ buf' = b
    /\ IF b \in Quit
       THEN pc' = "exit_ok" /\ UNCHANGED <<result, parser>>
       ELSE Evaluated(Expression(b, NewParser))

\* lines 226-238: the prompt, read_line, which appends the line typed and
\* its newline to buf, or nothing when stdin has ended (stdin is taken to
\* end at the start of a line), and the evaluation of buf
ReadEval ==
    /\ pc = "read"
    /\ \E eol \in BOOLEAN :
          /\ eol => ~eof
          /\ ~eol => stdin = <<>>
          /\ eof' = ~eol
          /\ Evaluate(buf \o stdin \o (IF eol THEN <<LF>> ELSE <<>>))
    /\ stdin' = <<>>
    /\ UNCHANGED <<input, index, emitted, tokens, tpanic>>

\* lines 239-240: println of the result, buf.clear(), and the loop starts over
PrintResult ==
    /\ pc = "print"
    /\ buf' = <<>>
    /\ result' = NoResult
    /\ parser' = NewParser
    /\ pc' = "read"
    /\ UNCHANGED <<input, index, emitted, tokens, tpanic, stdin, eof>>

Next == Type \/ ReadEval \/ PrintResult

Spec == Init /\ [][Next]_vars

----------------------------------------------------------------------------
(* What the claims are stated with *)

RECURSIVE CollectFrom(_, _, _)

\* the tokens collected after the tokens acc and the call of next that left n
Collected(s, acc, n) ==
    IF n.panic THEN [toks |-> acc, panic |-> TRUE]
    ELSE IF n.tok = NoToken THEN [toks |-> acc, panic |-> FALSE]
    ELSE CollectFrom(s, n.index, Append(acc, n.tok))

\* the tokens next returns on the line s from the cursor i up to its first
\* None, after the tokens acc, as tests::test_tokenize collects them
CollectFrom(s, i, acc) == Collected(s, acc, TokenizerNext(s, i))

\* tokenizer.into_iter().collect::<Vec<Token>>()
Collect(s) == CollectFrom(s, 0, <<>>)

\* the token sequence NUMBER (operator NUMBER)*
MatchesGrammar(ts) ==
    /\ Len(ts) % 2 = 1
    /\ \A p \in 1..Len(ts) : ts[p].type = (IF p % 2 = 1 THEN "Number" ELSE "Operator")

RECURSIVE GrammarPrefixLen(_, _)
\* the length of the longest prefix of ts that is NUMBER (operator NUMBER)*
\* and extends the prefix of length k
GrammarPrefixLen(ts, k) ==
    IF k = 0
    THEN IF Len(ts) >= 1 /\ ts[1].type = "Number" THEN GrammarPrefixLen(ts, 1) ELSE 0
    ELSE IF Len(ts) >= k + 2 /\ ts[k + 1].type = "Operator" /\ ts[k + 2].type = "Number"
         THEN GrammarPrefixLen(ts, k + 2)
         ELSE k

\* the arithmetic of one operator
Apply(o, a, b) ==
    CASE o = "Add" -> F32Add(a, b)
      [] o = "Subtract" -> F32Sub(a, b)
      [] o = "Multiply" -> F32Mul(a, b)
      [] o = "Divide" -> F32Div(a, b)
      [] o = "Power" -> F32Pow(a, b)

Num(v) == NumberToken(v, 0, 0, <<>>)

RECURSIVE Reduce(_, _)
\* ts, a NUMBER (operator NUMBER)* sequence, with every operator of the set
\* ops applied to its two neighbours, the leftmost first
Reduce(ts, ops) ==
    IF Len(ts) < 3 THEN ts
    ELSE IF ts[2].op \in ops
         THEN Reduce(<<Num(Apply(ts[2].op, ts[1].num, ts[3].num))>> \o SubSeq(ts, 4, Len(ts)), ops)
         ELSE <<ts[1], ts[2]>> \o Reduce(SubSeq(ts, 3, Len(ts)), ops)

\* the value of a NUMBER (operator NUMBER)* sequence by precedence: every **
\* first, then every * and /, then every + and -
ByPrecedence(ts) ==
    Reduce(Reduce(Reduce(ts, {"Power"}), {"Multiply", "Divide"}), {"Add", "Subtract"})[1].num

RECURSIVE LeftFold(_, _, _)
\* ((a op1 b) op2 c) ...: ts folded from the left, from the operator at k on
LeftFold(ts, k, acc) ==
    IF k > Len(ts) THEN acc
    ELSE LeftFold(ts, k + 2, Apply(ts[k].op, acc, ts[k + 1].num))

\* a op1 (b op2 (c ...)): ts folded from the right, from the operand at k on
RECURSIVE RightFold(_, _)
RightFold(ts, k) ==
    IF k >= Len(ts) THEN ts[k].num
    ELSE Apply(ts[k + 1].op, ts[k].num, RightFold(ts, k + 2))

Tier(o) == CASE o = "Power" -> 3 [] o \in {"Multiply", "Divide"} -> 2 [] OTHER -> 1

\* the operators of ts
OpsOf(ts) == {ts[p].op : p \in {q \in 1..Len(ts) : q % 2 = 0}}

\* main has evaluated the line in buf: expression has returned or panicked
Evaluated_ == pc \in {"print", "exit_err", "panic"}

\* the line main evaluated, as a tuple of characters without its newline
LineIs(l) == buf = l \o <<LF>>

----------------------------------------------------------------------------
(* C1: precedence.  Whenever the tokens of the line are NUMBER (operator   *)
(* NUMBER)*, expression returns Ok of the value got by applying every **   *)
(* first, then every * and /, then every + and -.                          *)

PrecedenceOn(c) ==
    (~c.panic /\ MatchesGrammar(c.toks)) => (pc = "print" /\ result = Ok(ByPrecedence(c.toks)))

----------------------------------------------------------------------------
(* C2: left-associativity.  Whenever the tokens of the line are a chain    *)
(* a op1 b op2 c ... of operators of one precedence tier, expression       *)
(* returns ((a op1 b) op2 c) ...                                           *)

OneTier(ts) == Cardinality({Tier(o) : o \in OpsOf(ts)}) <= 1

LeftAssociativeOn(c) ==
    (~c.panic /\ MatchesGrammar(c.toks) /\ OneTier(c.toks))
        => (pc = "print" /\ result = Ok(LeftFold(c.toks, 2, c.toks[1].num)))

C2_LeftAssociative == Evaluated_ => LeftAssociativeOn(Collect(buf))

\* "2 ** 3 ** 2" has been evaluated to 64, which is not 2 ** (3 ** 2) = 512
C2_Witness ==
    /\ LineIs(<<"2", " ", "*", "*", " ", "3", " ", "*", "*", " ", "2">>)
    /\ pc = "print"
    /\ result = Ok(Rat(64, 1))
    /\ RightFold(Collect(buf).toks, 1) = Rat(512, 1)

----------------------------------------------------------------------------
(* C7: a missing operand.  Whenever expression returns, it returns an      *)
(* error exactly when, reading the tokens from the left, a place where an  *)
(* operand is required (the start, or right after an operator) holds no    *)
(* Number: "unexpected end of input" when the tokens end there, "expected  *)
(* number, got Operator(op)" when an operator stands there; however deep   *)
(* the failing factor is nested, no value is returned.                     *)

RECURSIVE OperandAt(_, _)
\* what the grammar makes of ts from the operand required at position k
OperandAt(ts, k) ==
    IF k > Len(ts) THEN "unexpected end of input"
    ELSE IF ts[k].type = "Operator"
         THEN "expected number, got Operator(" \o OperatorDisplay(ts[k].op) \o ")"
    ELSE IF k + 1 <= Len(ts) /\ ts[k + 1].type = "Operator" THEN OperandAt(ts, k + 2)
    ELSE ""

MissingOperandOn(c) ==
    IF OperandAt(c.toks, 1) = ""
    THEN pc = "print" /\ result.kind = "ok"
    ELSE pc = "exit_err" /\ result = Err(OperandAt(c.toks, 1))

C7_MissingOperand == (pc \in {"print", "exit_err"}) => MissingOperandOn(Collect(buf))

\* an operator where the operand of a nested ** is required: "2*2**+"
C7_Witness ==
    /\ LineIs(<<"2", "+", "*", "*">>)
    /\ pc = "exit_err"
    /\ result = Err("expected number, got Operator(**)")

----------------------------------------------------------------------------
(* C10: the lookahead after a value.  Whenever expression returns a value, *)
(* the lookahead buffer holds the first token after the longest NUMBER     *)
(* (operator NUMBER)* prefix of the line's tokens, which is a Number or no *)
(* token and never an operator; the value is the value of that prefix, so  *)
(* what follows it is neither consumed nor an error.                       *)

LookaheadOn(c) ==
    /\ parser.peeked # <<>>
    /\ parser.peeked[1].type \in {"None", "Number"}
    /\ parser.peeked[1] = (IF GrammarPrefixLen(c.toks, 0) < Len(c.toks)
                           THEN c.toks[GrammarPrefixLen(c.toks, 0) + 1] ELSE NoToken)
    /\ result = Ok(ByPrecedence(SubSeq(c.toks, 1, GrammarPrefixLen(c.toks, 0))))

C10_Lookahead == (pc = "print") => LookaheadOn(Collect(buf))

\* "2 3" has been evaluated to 2 and the 3 is in the lookahead buffer
C10_Witness ==
    /\ LineIs(<<"2", " ", "3">>)
    /\ pc = "print"
    /\ result = Ok(Rat(2, 1))
    /\ parser.peeked # <<>> /\ parser.peeked[1].type = "Number"
    /\ parser.peeked[1].num = Rat(3, 1)

----------------------------------------------------------------------------
(* C3: token spans.  Every token next has returned has a span             *)
(* start < end <= input.len() with literal = input[start..end], where      *)
(* the span is the token's own text (the operator's characters, or a run   *)
(* of digits and '.'), and does not start before the end of the token      *)
(* before it.  The test's input has the seven spans the test lists.        *)

OperatorChars(o) ==
    CASE o = "Add" -> <<"+">> [] o = "Subtract" -> <<"-">> [] o = "Multiply" -> <<"*">>
      [] o = "Divide" -> <<"/">> [] o = "Power" -> <<"*", "*">>

IsTokenText(t) ==
    IF t.type = "Operator" THEN t.literal = OperatorChars(t.op)
    ELSE \A p \in 1..Len(t.literal) : IsAsciiDigit(t.literal[p]) \/ t.literal[p] = "."

SpanOk(s, prev, t) ==
    /\ prev <= t.start /\ t.start < t.end /\ t.end <= ByteLen(s)
    /\ ~SlicePanics(s, t.start, t.end) /\ t.literal = Slice(s, t.start, t.end)
    /\ IsTokenText(t)

TestSpans == <<<<0, 1>>, <<2, 4>>, <<5, 6>>, <<7, 8>>, <<9, 10>>, <<11, 12>>, <<13, 14>>>>

C3_Spans ==
    /\ \A p \in 1..Len(tokens) :
          SpanOk(input, IF p = 1 THEN 0 ELSE tokens[p - 1].end, tokens[p])
    /\ (input = TestInput /\ emitted = <<NoToken>>)
          => [p \in 1..Len(tokens) |-> <<tokens[p].start, tokens[p].end>>] = TestSpans

----------------------------------------------------------------------------
(* C4: the lookahead for **.  A call of next that finds '*' after the      *)
(* whitespace returns a token that starts there: Power, two characters     *)
(* long, with the cursor moved past both, when the character after it is   *)
(* '*' too; Multiply, one character long, otherwise.                       *)

StarAt(ws) == ~ws.panic /\ ws.index < ByteLen(input) /\ CharsNth(input, ws.index) = "*"

StarToken(start, t) ==
    /\ t.type = "Operator" /\ t.start = start
    /\ IF CharsNth(input, start + 1) = "*"
       THEN t.op = "Power" /\ t.end = start + 2 /\ t.literal = <<"*", "*">>
       ELSE t.op = "Multiply" /\ t.end = start + 1 /\ t.literal = <<"*">>

StarStep(ws) ==
    (input' = input /\ ~tpanic /\ StarAt(ws))
        => (~tpanic' /\ emitted' # <<>> /\ StarToken(ws.index, emitted'[1])
            /\ index' = emitted'[1].end)

C4_StarLookahead == [][StarStep(SkipWhitespace(input, index))]_vars

----------------------------------------------------------------------------
(* C6: the sequence is terminated.  Once next has returned None, every     *)
(* later call of next on the tokenizer returns None.                       *)

C6_Terminated ==
    [][(emitted = <<NoToken>> /\ ~tpanic) => (emitted' = <<NoToken>> /\ ~tpanic')]_vars

----------------------------------------------------------------------------
(* C5: no panic.  Whenever the line is made of numbers (digits with at     *)
(* most one '.') separated by one operator each, with any whitespace       *)
(* around them, evaluating it returns a value: it does not panic.          *)

RECURSIVE WellFormedFrom(_, _, _, _)
\* l is what is left of such a line, st says what went before: "operand"
\* (an operand is due), "number" (inside a number with or without a digit
\* so far, and dots '.' so far), "gap" (after a number), "star" (after one *)
WellFormedFrom(l, st, digit, dots) ==
    IF l = <<>> THEN (st = "number" /\ digit) \/ st = "gap"
    ELSE IF st = "number" /\ IsAsciiDigit(Head(l)) THEN WellFormedFrom(Tail(l), "number", TRUE, dots)
    ELSE IF st = "number" /\ Head(l) = "."
         THEN dots = 0 /\ WellFormedFrom(Tail(l), "number", digit, 1)
    ELSE IF st = "number" THEN digit /\ WellFormedFrom(l, "gap", FALSE, 0)
    ELSE IF st = "gap"
         THEN IF IsWhitespace(Head(l)) THEN WellFormedFrom(Tail(l), "gap", FALSE, 0)
              ELSE IF Head(l) \in {"+", "-", "/"} THEN WellFormedFrom(Tail(l), "operand", FALSE, 0)
              ELSE Head(l) = "*" /\ WellFormedFrom(Tail(l), "star", FALSE, 0)
    ELSE IF st = "star" /\ Head(l) = "*" THEN WellFormedFrom(Tail(l), "operand", FALSE, 0)
    ELSE IF IsWhitespace(Head(l)) THEN WellFormedFrom(Tail(l), "operand", FALSE, 0)
    ELSE IF IsAsciiDigit(Head(l)) THEN WellFormedFrom(Tail(l), "number", TRUE, 0)
    ELSE Head(l) = "." /\ WellFormedFrom(Tail(l), "number", FALSE, 1)

WellFormed(l) == WellFormedFrom(l, "operand", FALSE, 0)

C5_NoPanic == (Evaluated_ /\ WellFormed(buf)) => (pc = "print" /\ result.kind = "ok")

----------------------------------------------------------------------------
(* C8: whitespace-insensitivity.  Whenever a line has been evaluated, the  *)
(* line with one whitespace character more, between two tokens, at its     *)
(* start or at its end, and the line with one whitespace character less,   *)
(* have the same tokens and the same result or error.                      *)

RECURSIVE StarsBefore(_, _)
\* the number of '*' in a row that end at position p of l
StarsBefore(l, p) == IF p >= 1 /\ l[p] = "*" THEN 1 + StarsBefore(l, p - 1) ELSE 0

\* the place between the characters p and p + 1 of l is inside a token
InsideToken(l, p) ==
    /\ 1 <= p /\ p < Len(l)
    /\ \/ (IsAsciiDigit(l[p]) \/ l[p] = ".") /\ (IsAsciiDigit(l[p + 1]) \/ l[p + 1] = ".")
       \/ l[p + 1] = "*" /\ StarsBefore(l, p) % 2 = 1

WithWhitespace(l) ==
    {SubSeq(l, 1, p) \o <<w>> \o SubSeq(l, p + 1, Len(l)) :
        p \in {q \in 0..Len(l) : ~InsideToken(l, q)}, w \in {" ", NBSP}}

WithoutWhitespace(l) ==
    {SubSeq(l, 1, p - 1) \o SubSeq(l, p + 1, Len(l)) : p \in {q \in 1..Len(l) : IsWhitespace(l[q])}}

\* what the tokens of a line are, without their spans
Kinds(c) == [panic |-> c.panic, toks |-> [p \in 1..Len(c.toks) |-> <<c.toks[p].type, c.toks[p].op, c.toks[p].num>>]]

SameAs(v, l) ==
    /\ Kinds(Collect(v)) = Kinds(Collect(l))
    /\ Expression(v, NewParser).r = Expression(l, NewParser).r

C8_WhitespaceInsensitive ==
    Evaluated_ => (/\ result = Expression(buf, NewParser).r
                   /\ \A v \in WithWhitespace(buf) \cup WithoutWhitespace(buf) : SameAs(v, buf))

----------------------------------------------------------------------------
(* C9: the REPL goes on after an error.  Whenever the evaluation of a line *)
(* has returned an error (and stdin has not ended), main is still running  *)
(* and reads the next line.                                                *)

C9_ReplContinues == (result.kind = "err" /\ ~eof) => (pc \in {"read", "print"} /\ ENABLED ReadEval)

====
